---- MODULE Spec2Model ----
(***************************************************************************)
(* GraphGallery: the ChebyNet trainers (supervised / gallery_model /       *)
(* nodeclas generations), the Chebyshev basis transform they cache, the    *)
(* model registry they look architectures up in, and the SSGConv layer.    *)
(***************************************************************************)
EXTENDS Integers, Sequences, FiniteSets, TLC

\* ------------------------------------------------------------------ bounds
NumNodes == 3
MaxOrder == 2
MaxEpochs == 2
MaxK == 3
MaxChebyK == 4

Nodes == 1..NumNodes

None == "None"

\* ------------------------------------------------------- matrix arithmetic
RECURSIVE SumTo(_, _)
SumTo(f, n) == IF n = 0 THEN 0 ELSE f[n] + SumTo(f, n - 1)

Identity(n) == [i \in 1..n |-> [j \in 1..n |-> IF i = j THEN 1 ELSE 0]]

MatSub(P, Q) == [i \in DOMAIN P |-> [j \in DOMAIN P[i] |-> P[i][j] - Q[i][j]]]

MatScale(c, P) == [i \in DOMAIN P |-> [j \in DOMAIN P[i] |-> c * P[i][j]]]

MatMul(P, Q) ==
    [i \in DOMAIN P |->
        [j \in DOMAIN Q[1] |->
            SumTo([k \in DOMAIN Q |-> P[i][k] * Q[k][j]], Len(Q))]]

IsSquare(P, n) == DOMAIN P = 1..n /\ \A i \in 1..n : DOMAIN P[i] = 1..n

\* symmetric 0/1 adjacency matrices (self loops allowed) in which every node
\* has degree 0 or 1: on these d^(-1/2) is integral, so the normalisation
\* below is exact in integer arithmetic
Degree(adj, i) == SumTo(adj[i], Len(adj[i]))

\* p[i] is the one neighbour of node i (i itself for a self loop), 0 if none
Pairings ==
    {p \in [Nodes -> 0..NumNodes] : \A i \in Nodes : p[i] # 0 => p[p[i]] = i}

AdjOf(p) == [i \in Nodes |-> [j \in Nodes |-> IF p[i] = j THEN 1 ELSE 0]]

AdjMatrices == {AdjOf(p) : p \in Pairings}

\* d^(-1/2), with the infinity of an isolated node replaced by 0
InvSqrtDegree(d) == IF d = 1 THEN 1 ELSE 0

\* D^(-1/2) A D^(-1/2)
normalize_adj(adj) ==
    [i \in DOMAIN adj |->
        [j \in DOMAIN adj |->
            InvSqrtDegree(Degree(adj, i)) * adj[i][j] * InvSqrtDegree(Degree(adj, j))]]

\* L~ = (2/lambda_max) L - I with L = I - D^(-1/2) A D^(-1/2) and lambda_max
\* fixed at 2
ScaledLaplacian(adj) ==
    LET I == Identity(Len(adj))
        L == MatSub(I, normalize_adj(adj))
    IN  MatSub(L, I)

RECURSIVE ChebyT(_, _)
ChebyT(Lt, k) ==
    IF k = 0 THEN Identity(Len(Lt))
    ELSE IF k = 1 THEN Lt
    ELSE MatSub(MatScale(2, MatMul(Lt, ChebyT(Lt, k - 1))), ChebyT(Lt, k - 2))

\* the Chebyshev basis transform: [T0 .. TK]
cheby_basis(adj, K) ==
    [k \in 1..(K + 1) |-> ChebyT(ScaledLaplacian(adj), k - 1)]


\* ---------------------------------------------------------------- state
VARIABLES
    variant,        \* which ChebyNet class this trainer is
    backend,        \* the process-wide backend flag the trainer reads
    order,          \* polynomial order of the adjacency transform
    norm_adj_rate,  \* supervised: normalisation rate, or None
    graph,          \* the bound graph, or None
    cache,          \* cached tensors X and A
    model,          \* the model handle, or None
    built,          \* self.built
    lifecycle,      \* Created / GraphBound / Built / Fitting / Fitted
    history,        \* lifecycle states in order of first visit
    allocated,      \* names of the tensors allocated so far
    op, err, ret,   \* last call, its error ("ok" if none), its result
    fitCfg,         \* arguments of the running or last fit
    epoch,          \* epochs completed by the running or last fit
    stop,           \* a callback requested early termination
    trainBatches,   \* training batches produced by the running or last fit
    valBatches,     \* validation batches produced by the running or last fit
    reports,        \* per-callback number of metric reports received
    lastBatch,      \* the training batch of the latest epoch
    cb_adj, cb_K, cb_out, cb_pc,                     \* transform under test
    ssg_K, ssg_alpha, heap, x_ref, x_in, x_out, arg_x, ssg_i, ssg_steps, ssg_pc,
    ssg_divs, arg_val, ssg_adj

trainerVars ==
    <<variant, backend, order, norm_adj_rate, graph, cache, model, built, lifecycle,
      history, allocated, op, err, ret, fitCfg, epoch, stop, trainBatches,
      valBatches, reports, lastBatch>>

chebyVars == <<cb_adj, cb_K, cb_out, cb_pc>>

ssgVars ==
    <<ssg_K, ssg_alpha, heap, x_ref, x_in, x_out, arg_x, ssg_i, ssg_steps, ssg_pc,
      ssg_divs, arg_val, ssg_adj>>

vars == <<trainerVars, chebyVars, ssgVars>>

\* ------------------------------------------- the transform as a function
\* data_step's default adj_transform=("cheby_basis", dict(K=2)); the
\* supervised constructor's default order=2
DefaultChebyOrder == 2

ChebyIdle ==
    /\ cb_adj = Identity(NumNodes) /\ cb_K = 0 /\ cb_out = <<>> /\ cb_pc = "idle"

SSGIdle ==
    /\ ssg_K = 1 /\ ssg_alpha = [n |-> 0, d |-> 1] /\ heap = <<>> /\ x_ref = 0 /\ x_in = 0
    /\ x_out = 0 /\ arg_x = 0 /\ ssg_i = 0 /\ ssg_steps = 0 /\ ssg_pc = "idle"
    /\ ssg_divs = <<>> /\ arg_val = <<>> /\ ssg_adj = Identity(NumNodes)

TrainerIdle ==
    /\ variant = None /\ backend = None /\ order = 0 /\ norm_adj_rate = None
    /\ graph = [adj_matrix |-> <<>>, attr_matrix |-> <<>>, label |-> <<>>]
    /\ cache = [X |-> [tensor |-> <<>>, device |-> None],
                A |-> [kind |-> "none", items |-> <<>>]]
    /\ model = [arch |-> None, n_adj |-> 0, layers |-> <<>>] /\ built = FALSE
    /\ lifecycle = "Created" /\ history = <<>> /\ allocated = {}
    /\ op = [name |-> None, a |-> <<>>, b |-> <<>>] /\ err = "ok"
    /\ ret = [kind |-> "none"]
    /\ fitCfg = [train_index |-> <<>>, val_index |-> <<>>, epochs |-> 0]
    /\ epoch = 0 /\ stop = FALSE /\ trainBatches = 0 /\ valBatches = 0
    /\ reports = <<>> /\ lastBatch = [kind |-> "none"]

InitCheby ==
    /\ cb_adj \in AdjMatrices
    /\ cb_K \in {0} \cup (1..MaxChebyK)     \* 0: the caller passes no K
    /\ cb_out = <<>>
    /\ cb_pc = "call"
    /\ TrainerIdle /\ SSGIdle

\* gf.get(("cheby_basis", dict(K=K)))(adj_matrix)
ApplyTransform ==
    /\ cb_pc = "call" /\ cb_K >= 1
    /\ cb_out' = cheby_basis(cb_adj, cb_K)
    /\ cb_pc' = "done"
    /\ UNCHANGED <<cb_adj, cb_K, trainerVars, ssgVars>>

\* a default transform of order 1
default_adj_transform_order_one(adj) == cheby_basis(adj, 1)

\* gf.get(("cheby_basis", dict(K=2))): the default adj_transform of data_step
default_adj_transform(adj) == cheby_basis(adj, DefaultChebyOrder)

\* data_step() called without an adj_transform
ApplyDefaultTransform ==
    /\ cb_pc = "call" /\ cb_K = 0
    /\ cb_out' = default_adj_transform(cb_adj)
    /\ cb_pc' = "done"
    /\ UNCHANGED <<cb_adj, cb_K, trainerVars, ssgVars>>

NextCheby == ApplyTransform \/ ApplyDefaultTransform

SpecCheby == InitCheby /\ [][NextCheby]_vars


\* ------------------------------------------------------ graphs and tensors
NumClasses == 2

Range(f) == {f[k] : k \in DOMAIN f}

AttrMatrix == [i \in Nodes |-> <<i % 2>>]

Labels == [i \in Nodes |-> i % NumClasses]

GraphOf(adj) == [adj_matrix |-> adj, attr_matrix |-> AttrMatrix, label |-> Labels]

\* node index lists handed to fit / evaluate / predict / the loaders
IndexLists == {<<1, 2>>, <<NumNodes>>}

HiddenLists == {<<16>>, <<16, 8>>}

ActivationLists == {<<"relu">>, <<"relu", "tanh">>}

\* labels[index]
Select(labels, index) == [k \in DOMAIN index |-> labels[index[k]]]

\* gf.astensors / to_tensor of one matrix: a backend tensor on a device
astensor(m, device) == [tensor |-> m, device |-> device]

\* gf.astensors / to_tensor of a list of matrices
astensors(ms, device) ==
    [kind |-> "list", items |-> [k \in DOMAIN ms |-> astensor(ms[k], device)]]

\* the conversion of a single (sparse) adjacency matrix
assparse(m, device) == [kind |-> "sparse", items |-> <<astensor(m, device)>>]

Device == "cpu:0"

NoTensor == [tensor |-> <<>>, device |-> None]

NoTensors == [kind |-> "none", items |-> <<>>]

EmptyCache == [X |-> NoTensor, A |-> NoTensors]

NoGraph == [adj_matrix |-> <<>>, attr_matrix |-> <<>>, label |-> <<>>]

NoModel == [arch |-> None, n_adj |-> 0, layers |-> <<>>]

NoResult == [kind |-> "none"]

NoCall == [name |-> None, a |-> <<>>, b |-> <<>>]

NoFit == [train_index |-> <<>>, val_index |-> <<>>, epochs |-> 0]

\* normalize_fn('row_wise'): every row divided by its sum (a zero row stays)
row_wise(x) ==
    [i \in DOMAIN x |->
        LET rs == SumTo(x[i], Len(x[i]))
        IN  [f \in DOMAIN x[i] |-> IF rs = 0 THEN 0 ELSE x[i][f] \div rs]]

\* gf.get(None): the transform that passes its matrix through
no_transform(m) == m

\* zip(hiddens, activations): stops at the shorter list
RECURSIVE Zip(_, _)
Zip(a, b) ==
    IF a = <<>> \/ b = <<>> THEN <<>>
    ELSE <<[units |-> Head(a), activation |-> Head(b)]>> \o Zip(Tail(a), Tail(b))

\* FullBatchSequence / FullBatchNodeSequence: a sequence object over one batch
FullBatchSequence(inputs, labels) == [inputs |-> inputs, labels |-> labels]

\* len(sequence) and iteration: one item, every time it is iterated
Iterate(sequence) == <<sequence>>

\* ---------------------------------------------------------- model registry
\* graphgallery.nn.models.pytorch: the architectures the package imports
PyTorchModels ==
    {"GAT", "GCN", "MedianGCN", "TrimmedGCN", "FastGCN", "DAGNN", "SimPGCN", "MLP",
     "TAGCN", "APPNP", "LabelPropagation", "GraphSAGE", "AGNN", "GraphMLP", "LATGCN",
     "DGAT", "Node2GridsCNN", "GAE", "VGAE", "RobustGCN"}

\* graphgallery.nn.models.tensorflow: from ... import ChebyNet as tfChebyNet
TensorFlowModels == {"ChebyNet"}

Registered(name, be) ==
    \/ be = "pytorch" /\ name \in PyTorchModels
    \/ be = "tensorflow" /\ name \in TensorFlowModels

\* get_model(name, backend)
get_model(name, be) ==
    IF Registered(name, be) THEN [err |-> "ok", ctor |-> <<name, be>>]
    ELSE [err |-> "ModelNotFoundError", ctor |-> <<>>]

\* the lookups whose outcome the registry above decides
LookupPairs ==
    ({"ChebyNet"} \X {"tensorflow", "pytorch", "unregistered_backend"})
        \cup ({"GCN", "TrimmedGCN"} \X {"pytorch", "unregistered_backend"})


\* ------------------------------------------- nn/models/supervised ChebyNet
\* chebyshev_polynomials(adj, rate=-0.5, order=order)
chebyshev_polynomials(adj, rate, ord) == cheby_basis(adj, ord)

\* ChebyNet.preprocess: the tensors tf_x and tf_adj
preprocess(adj, x, ord, rate) ==
    [X |-> astensor(row_wise(x), Device),
     A |-> IF rate # None
           THEN astensors(chebyshev_polynomials(adj, rate, ord), Device)
           ELSE assparse(adj, Device)]

\* assert len(hiddens) == len(activations)
same_length(hiddens, activations) == Len(hiddens) = Len(activations)

\* a model with one adjacency input per unit of order
keras_model_order_inputs(hiddens, activations, ord) ==
    [arch |-> "ChebyNet", n_adj |-> ord, layers |-> Zip(hiddens, activations)]

\* the Keras model of build: inputs [x, *adj, index] with order+1 adjacency
\* inputs, one ChebyConvolution per (hid, activation) pair
keras_model(hiddens, activations, ord) ==
    [arch |-> "ChebyNet", n_adj |-> ord + 1, layers |-> Zip(hiddens, activations)]

\* ChebyNet.train_sequence (supervised and gallery_model alike):
\* FullBatchNodeSequence([x, *adj, index], labels[index]); unpacking a
\* sparse tensor that is no list raises TypeError
train_sequence(index) ==
    IF cache.A.kind # "list" THEN [err |-> "TypeError", seq |-> NoResult]
    ELSE [err |-> "ok",
          seq |-> FullBatchSequence(<<cache.X>> \o cache.A.items \o <<index>>,
                                    Select(graph.label, index))]

\* ----------------------------------- gallery_model/tensorflow ChebyNet
\* process_step: feature_inputs and structure_inputs
process_step(adj, x, ord) ==
    [X |-> astensor(no_transform(x), Device),
     A |-> astensors(cheby_basis(adj, ord), Device)]

\* @gf.equal(): all list arguments have the same length
equal(hiddens, activations) == Len(hiddens) = Len(activations)

\* tfChebyNet(..., order=self.adj_transform.order, ...)
tfChebyNet(hiddens, activations, ord) ==
    [arch |-> "ChebyNet", n_adj |-> ord + 1, layers |-> Zip(hiddens, activations)]

\* ------------------------------------------ nodeclas/pytorch ChebyNet
\* a data step that registers X alone
data_step_without_A(g, K) ==
    [X |-> astensor(no_transform(g.attr_matrix), Device), A |-> NoTensors]

\* data_step: the cache entries X and A
data_step(g, K) ==
    [X |-> astensor(no_transform(g.attr_matrix), Device),
     A |-> astensors(cheby_basis(g.adj_matrix, K), Device)]

\* a model_step that constructs the network without asking the registry
model_step_no_lookup(c, be, hids, acts) ==
    [err |-> "ok",
     model |-> [arch |-> "ChebyNet", n_adj |-> Len(c.A.items),
                layers |-> Zip(hids, acts)]]

\* model_step: K = len(self.cache.A); get_model("ChebyNet", self.backend)(...)
model_step(c, be, hids, acts) ==
    LET K == Len(c.A.items)
        found == get_model("ChebyNet", be)
    IN  IF found.err # "ok" THEN [err |-> found.err, model |-> NoModel]
        ELSE [err |-> "ok",
              model |-> [arch |-> "ChebyNet", n_adj |-> K, layers |-> Zip(hids, acts)]]

\* a loader that leaves the basis matrices out of the batch
train_loader_no_adj(index) ==
    IF graph = NoGraph \/ cache.A.kind # "list"
    THEN [err |-> "AttributeError", seq |-> NoResult]
    ELSE [err |-> "ok",
          seq |-> [inputs |-> <<cache.X>>,
                   labels |-> Select(graph.label, index),
                   out_index |-> index]]

\* train_loader: FullBatchSequence([X, *A], labels, out_index=index)
train_loader(index) ==
    IF graph = NoGraph \/ cache.A.kind # "list"
    THEN [err |-> "AttributeError", seq |-> NoResult]
    ELSE [err |-> "ok",
          seq |-> [inputs |-> <<cache.X>> \o cache.A.items,
                   labels |-> Select(graph.label, index),
                   out_index |-> index]]

\* the loader of the trainer at hand
TrainSequence(index) ==
    IF variant = "nodeclas" THEN train_loader(index) ELSE train_sequence(index)


\* ------------------------------------------------------- trainer actions
Variants == {"supervised", "gallery_tf", "nodeclas"}

Backends == {"tensorflow", "pytorch"}

NumCallbacks == 1

Losses == {0, 1}

cfgVars == <<variant, backend, norm_adj_rate>>

fitVars == <<fitCfg, epoch, stop, trainBatches, valBatches, reports, lastBatch>>

\* the graphs the trainers are set up with: nodes 1 and 2 joined, no self loops
TrainerGraphs ==
    {AdjOf(p) : p \in {q \in Pairings : q[1] = 2 /\ \A i \in Nodes : q[i] # i}}

\* validation index lists; the empty list stands for no validation indices
ValIndexLists == {<<>>, <<NumNodes>>}

Visit(h, s) == IF s \in Range(h) THEN h ELSE Append(h, s)

Call(name, a, b, e, r) ==
    /\ op' = [name |-> name, a |-> a, b |-> b]
    /\ err' = e
    /\ ret' = r
    /\ UNCHANGED <<chebyVars, ssgVars>>

\* construction: the supervised and gallery_model classes take the graph and
\* convert it at once; the nodeclas trainer starts without a graph
InitTrainer ==
    /\ \E v \in Variants, adj \in TrainerGraphs, ord \in 1..MaxOrder, be \in Backends :
        /\ variant = v
        /\ \/ /\ v = "supervised"
              /\ backend = "tensorflow" /\ order = ord /\ norm_adj_rate = "-0.5"
              /\ graph = GraphOf(adj)
              /\ cache = preprocess(adj, AttrMatrix, ord, "-0.5")
              /\ lifecycle = "GraphBound" /\ history = <<"GraphBound">>
              /\ allocated = {"X", "A"}
           \/ /\ v = "gallery_tf"
              /\ backend = be /\ order = ord /\ norm_adj_rate = None
              /\ graph = GraphOf(adj)
              /\ cache = process_step(adj, AttrMatrix, ord)
              /\ lifecycle = "GraphBound" /\ history = <<"GraphBound">>
              /\ allocated = {"X", "A"}
           \/ /\ v = "nodeclas"
              /\ backend = "pytorch" /\ order = 0 /\ norm_adj_rate = None
              /\ graph = NoGraph /\ cache = EmptyCache
              /\ lifecycle = "Created" /\ history = <<"Created">>
              /\ allocated = {}
    /\ model = NoModel /\ built = FALSE
    /\ op = NoCall /\ err = "ok" /\ ret = NoResult
    /\ fitCfg = NoFit /\ epoch = 0 /\ stop = FALSE
    /\ trainBatches = 0 /\ valBatches = 0
    /\ reports = [c \in 1..NumCallbacks |-> 0]
    /\ lastBatch = NoResult
    /\ ChebyIdle /\ SSGIdle

\* Trainer.setup_graph(graph): Created -> GraphBound
SetupGraph(adj) ==
    /\ variant = "nodeclas" /\ lifecycle = "Created"
    /\ graph' = GraphOf(adj)
    /\ lifecycle' = "GraphBound"
    /\ history' = Visit(history, "GraphBound")
    /\ Call("setup_graph", <<>>, <<>>, "ok", NoResult)
    /\ UNCHANGED <<cfgVars, order, cache, model, built, allocated, fitVars>>

\* supervised ChebyNet.build(hiddens, activations)
BuildSupervised(hiddens, activations) ==
    /\ variant = "supervised" /\ lifecycle # "Fitting"
    /\ IF ~same_length(hiddens, activations)
       THEN /\ Call("build", hiddens, activations, "AssertionError", NoResult)
            /\ UNCHANGED <<model, built, lifecycle, history, allocated>>
       ELSE /\ model' = keras_model(hiddens, activations, order)
            /\ built' = TRUE
            /\ lifecycle' = "Built"
            /\ history' = Visit(history, "Built")
            /\ allocated' = allocated \cup {"Input"}
            /\ Call("build", hiddens, activations, "ok", NoResult)
    /\ UNCHANGED <<cfgVars, order, graph, cache, fitVars>>

\* gallery_model ChebyNet.build(hiddens, activations), wrapped by @gf.equal()
BuildGallery(hiddens, activations) ==
    /\ variant = "gallery_tf" /\ lifecycle # "Fitting"
    /\ IF ~equal(hiddens, activations)
       THEN /\ Call("build", hiddens, activations, "ConfigurationError", NoResult)
            /\ UNCHANGED <<model, built, lifecycle, history, allocated>>
       ELSE IF backend = "tensorflow"
       THEN /\ model' = tfChebyNet(hiddens, activations, order)
            /\ built' = TRUE
            /\ lifecycle' = "Built"
            /\ history' = Visit(history, "Built")
            /\ allocated' = allocated \cup {"Input"}
            /\ Call("build", hiddens, activations, "ok", NoResult)
       ELSE /\ Call("build", hiddens, activations, "NotImplementedError", NoResult)
            /\ UNCHANGED <<model, built, lifecycle, history, allocated>>
    /\ UNCHANGED <<cfgVars, order, graph, cache, fitVars>>

\* nodeclas Trainer.build(hids, acts) with adj_transform=("cheby_basis",
\* dict(K=K)): the list check, then data_step, then model_step
BuildNodeclas(hids, acts, K) ==
    /\ variant = "nodeclas" /\ lifecycle # "Fitting"
    /\ IF Len(hids) # Len(acts)
       THEN /\ Call("build", hids, acts, "ConfigurationError", NoResult)
            /\ UNCHANGED <<order, cache, model, built, lifecycle, history, allocated>>
       ELSE IF graph = NoGraph
       THEN /\ Call("build", hids, acts, "AttributeError", NoResult)
            /\ UNCHANGED <<order, cache, model, built, lifecycle, history, allocated>>
       ELSE LET c == data_step(graph, K)
                m == model_step(c, backend, hids, acts)
            IN  /\ cache' = c
                /\ order' = K
                /\ IF m.err # "ok"
                   THEN /\ allocated' = allocated \cup {"X", "A"}
                        /\ Call("build", hids, acts, m.err, NoResult)
                        /\ UNCHANGED <<model, built, lifecycle, history>>
                   ELSE /\ model' = m.model
                        /\ built' = TRUE
                        /\ lifecycle' = "Built"
                        /\ history' = Visit(history, "Built")
                        /\ allocated' = allocated \cup {"X", "A", "Input"}
                        /\ Call("build", hids, acts, "ok", NoResult)
    /\ UNCHANGED <<cfgVars, graph, fitVars>>

\* get_model(name, backend), called directly
GetModel(name, be) ==
    /\ lifecycle # "Fitting"
    /\ LET found == get_model(name, be)
       IN  Call("get_model", <<name>>, <<be>>, found.err,
                [kind |-> "ctor", ctor |-> found.ctor])
    /\ UNCHANGED <<cfgVars, order, graph, cache, model, built, lifecycle, history,
                   allocated, fitVars>>

\* train_sequence(index) / train_loader(index), called directly
TrainLoader(index) ==
    /\ lifecycle # "Fitting"
    /\ LET s == TrainSequence(index)
       IN  Call("train_loader", index, <<>>, s.err,
                IF s.err = "ok" THEN [kind |-> "sequence", seq |-> s.seq] ELSE NoResult)
    /\ UNCHANGED <<cfgVars, order, graph, cache, model, built, lifecycle, history,
                   allocated, fitVars>>

\* a predict that reads the model without asking whether it was built
predict_unguarded(index) ==
    /\ lifecycle # "Fitting"
    /\ IF model = NoModel
       THEN Call("predict", index, <<>>, "AttributeError", NoResult)
       ELSE Call("predict", index, <<>>, "ok",
                 [kind |-> "logit", rows |-> Len(index), cols |-> NumClasses])
    /\ UNCHANGED <<cfgVars, order, graph, cache, model, built, lifecycle, history,
                   allocated, fitVars>>

\* predict(index): super().predict(index) refuses an unbuilt trainer, then
\* model.predict_on_batch([tf_x, *tf_adj, index])
predict(index) ==
    /\ lifecycle # "Fitting"
    /\ IF ~built
       THEN Call("predict", index, <<>>, "NotBuiltError", NoResult)
       ELSE LET s == TrainSequence(index)
            IN  IF s.err # "ok"
                THEN Call("predict", index, <<>>, s.err, NoResult)
                ELSE Call("predict", index, <<>>, "ok",
                          [kind |-> "logit", rows |-> Len(index), cols |-> NumClasses])
    /\ UNCHANGED <<cfgVars, order, graph, cache, model, built, lifecycle, history,
                   allocated, fitVars>>

Predict == \E index \in IndexLists : predict(index)

\* an evaluate that leaves the trainer marked as fitted
evaluate_marks_fitted(index) ==
    /\ lifecycle # "Fitting"
    /\ IF ~built
       THEN /\ Call("evaluate", index, <<>>, "NotBuiltError", NoResult)
            /\ UNCHANGED <<lifecycle, history>>
       ELSE /\ \E l \in Losses, correct \in 0..Len(index) :
                Call("evaluate", index, <<>>, "ok",
                     [kind |-> "bundle", loss |-> l,
                      accuracy |-> [correct |-> correct, total |-> Len(index)]])
            /\ lifecycle' = "Fitted"
            /\ history' = Visit(history, "Fitted")
    /\ UNCHANGED <<cfgVars, order, graph, cache, model, built, allocated, fitVars>>

\* evaluate(test_index): one batch from the loader, a bundle {loss, accuracy}
evaluate(index) ==
    /\ lifecycle # "Fitting"
    /\ IF ~built
       THEN Call("evaluate", index, <<>>, "NotBuiltError", NoResult)
       ELSE LET s == TrainSequence(index)
            IN  IF s.err # "ok"
                THEN Call("evaluate", index, <<>>, s.err, NoResult)
                ELSE \E l \in Losses, correct \in 0..Len(index) :
                        Call("evaluate", index, <<>>, "ok",
                             [kind |-> "bundle", loss |-> l,
                              accuracy |-> [correct |-> correct, total |-> Len(index)]])
    /\ UNCHANGED <<lifecycle, history>>
    /\ UNCHANGED <<cfgVars, order, graph, cache, model, built, allocated, fitVars>>

Evaluate == \E index \in IndexLists : evaluate(index)


\* a loop condition that does not look at the callbacks' stop signal
more_epochs_ignoring_stop == epoch < fitCfg.epochs

\* the epoch loop of fit goes on: epochs remain and no callback asked to stop
more_epochs == epoch < fitCfg.epochs /\ ~stop

\* fit(train_index, val_index, epochs, callbacks): Built -> Fitting
Fit(train_index, val_index, epochs) ==
    /\ lifecycle # "Fitting"
    /\ IF ~built
       THEN /\ Call("fit", train_index, val_index, "NotBuiltError", NoResult)
            /\ UNCHANGED <<lifecycle, history, fitVars>>
       ELSE /\ lifecycle' = "Fitting"
            /\ history' = Visit(history, "Fitting")
            /\ fitCfg' = [train_index |-> train_index, val_index |-> val_index,
                          epochs |-> epochs]
            /\ epoch' = 0 /\ stop' = FALSE
            /\ trainBatches' = 0 /\ valBatches' = 0
            /\ reports' = [c \in 1..NumCallbacks |-> 0]
            /\ lastBatch' = NoResult
            /\ Call("fit", train_index, val_index, "ok", NoResult)
    /\ UNCHANGED <<cfgVars, order, graph, cache, model, built, allocated>>

\* one epoch of fit: a training batch, a validation batch if validation
\* indices were given, the metrics reported to every callback, any of which
\* may ask to stop
FitEpoch ==
    /\ lifecycle = "Fitting" /\ more_epochs
    /\ LET s == TrainSequence(fitCfg.train_index)
           items == Iterate(s.seq)
       IN  /\ s.err = "ok"
           /\ trainBatches' = trainBatches + Len(items)
           /\ lastBatch' = items[Len(items)]
    /\ valBatches' = valBatches + (IF fitCfg.val_index # <<>> THEN 1 ELSE 0)
    /\ reports' = [c \in 1..NumCallbacks |-> reports[c] + 1]
    /\ stop' \in BOOLEAN
    /\ epoch' = epoch + 1
    /\ Call("fit_epoch", <<>>, <<>>, "ok", NoResult)
    /\ UNCHANGED <<cfgVars, order, graph, cache, model, built, lifecycle, history,
                   allocated, fitCfg>>

\* fit returns: Fitting -> Fitted
FitReturn ==
    /\ lifecycle = "Fitting" /\ ~more_epochs
    /\ lifecycle' = "Fitted"
    /\ history' = Visit(history, "Fitted")
    /\ Call("fit_return", <<>>, <<>>, "ok", NoResult)
    /\ UNCHANGED <<cfgVars, order, graph, cache, model, built, allocated, fitVars>>

NextTrainer ==
    \/ \E adj \in TrainerGraphs : SetupGraph(adj)
    \/ \E h \in HiddenLists, a \in ActivationLists : BuildSupervised(h, a)
    \/ \E h \in HiddenLists, a \in ActivationLists : BuildGallery(h, a)
    \/ \E h \in HiddenLists, a \in ActivationLists, K \in 1..MaxOrder :
            BuildNodeclas(h, a, K)
    \/ \E pair \in LookupPairs : GetModel(pair[1], pair[2])
    \/ \E index \in IndexLists : TrainLoader(index)
    \/ Predict
    \/ Evaluate
    \/ \E t \in IndexLists, v \in ValIndexLists, e \in 0..MaxEpochs : Fit(t, v, e)
    \/ FitEpoch
    \/ FitReturn

Spec == InitTrainer /\ [][NextTrainer]_vars

\* fit is a synchronous loop: it runs its epochs and returns
FairSpec == Spec /\ WF_vars(FitEpoch) /\ WF_vars(FitReturn)


\* ------------------------------------------------------------ properties
Pos(h, s) == CHOOSE k \in DOMAIN h : h[k] = s

LoaderOps == {"fit", "fit_epoch", "fit_return", "train_loader", "evaluate", "predict"}

\* C4: on every symmetric adjacency matrix and every order K >= 1 the
\* Chebyshev basis transform returns K+1 matrices, each N x N, the first the
\* identity, each later one 2*L~*T(k-1) - T(k-2); the default order gives 3
C4_ChebyBasis ==
    cb_pc = "done" =>
        LET Lt == ScaledLaplacian(cb_adj)
            n == Len(cb_out)
        IN  /\ cb_K >= 1 => n = cb_K + 1
            /\ cb_K = 0 => n = 3
            /\ \A k \in 1..n : IsSquare(cb_out[k], NumNodes)
            /\ cb_out[1] = Identity(NumNodes)
            /\ \A k \in 3..n :
                cb_out[k] = MatSub(MatScale(2, MatMul(Lt, cb_out[k - 1])), cb_out[k - 2])

C4_Witness == cb_pc = "done" /\ cb_K = 0 /\ cb_adj[1][2] = 1 /\ Len(cb_out) = 3

\* C1: fit, evaluate and predict on a trainer that is not built fail with
\* NotBuiltError and leave the lifecycle state alone; Fitting and Fitted are
\* entered only after GraphBound and then Built
C1_HistoryOrdered ==
    /\ lifecycle \in Range(history)
    /\ "Built" \in Range(history) =>
            /\ "GraphBound" \in Range(history)
            /\ Pos(history, "GraphBound") < Pos(history, "Built")
    /\ "Fitting" \in Range(history) =>
            /\ "Built" \in Range(history)
            /\ Pos(history, "Built") < Pos(history, "Fitting")
    /\ "Fitted" \in Range(history) =>
            /\ "Fitting" \in Range(history)
            /\ Pos(history, "Fitting") < Pos(history, "Fitted")

\* C1: an unbuilt trainer answers fit, evaluate and predict with NotBuiltError,
\* its lifecycle state unchanged, and the lifecycle states are entered in the
\* order GraphBound, Built, Fitting, Fitted
C1_NotBuiltGuard ==
    /\ [][(op'.name \in {"fit", "evaluate", "predict"} /\ ~built)
            => (err' = "NotBuiltError" /\ lifecycle' = lifecycle /\ built' = built)]_vars
    /\ []C1_HistoryOrdered

C1_Witness ==
    op.name = "predict" /\ err = "NotBuiltError" /\ lifecycle = "GraphBound" /\ ~built

\* C2: a build whose hiddens and activations differ in length fails with
\* ConfigurationError, allocates no tensor, sets no model and does not make
\* the trainer Built
C2_MismatchIsConfigurationError ==
    [][(op'.name = "build" /\ Len(op'.a) # Len(op'.b))
        => /\ err' = "ConfigurationError"
           /\ allocated' = allocated
           /\ model' = model /\ built' = built /\ lifecycle' = lifecycle]_vars

\* C3 as stated: a build of a trainer whose architecture is not implemented
\* for the active backend fails with ModelNotFoundError, no model, not Built
C3_BuildFailsWithModelNotFound ==
    (/\ op.name = "build" /\ Len(op.a) = Len(op.b) /\ graph # NoGraph
     /\ ~Registered("ChebyNet", backend))
        => (err = "ModelNotFoundError" /\ model = NoModel /\ ~built)

\* C3 amended: get_model of an unregistered (name, backend) pair fails with
\* ModelNotFoundError, and so does the nodeclas ChebyNet's build on PyTorch;
\* the gallery_model ChebyNet's build on a backend other than TensorFlow
\* fails with NotImplementedError, raised by build itself; after either
\* failure the trainer holds no model and is not Built
C3_NotImplementedForBackend ==
    /\ (op.name = "get_model" /\ ~Registered(op.a[1], op.b[1]))
            => (err = "ModelNotFoundError" /\ ret.ctor = <<>>)
    /\ (op.name = "get_model" /\ Registered(op.a[1], op.b[1]))
            => (err = "ok" /\ ret.ctor = <<op.a[1], op.b[1]>>)
    /\ (/\ op.name = "build" /\ Len(op.a) = Len(op.b) /\ graph # NoGraph
        /\ ~Registered("ChebyNet", backend))
            => /\ err = (IF variant = "gallery_tf" THEN "NotImplementedError"
                         ELSE "ModelNotFoundError")
               /\ model = NoModel /\ ~built /\ lifecycle = "GraphBound"

C3_Witness ==
    /\ variant = "nodeclas" /\ op.name = "build" /\ err = "ModelNotFoundError"
    /\ model = NoModel /\ lifecycle = "GraphBound"

\* C5: a loader call on a trainer with cached tensors yields a sequence of one
\* item: the cached X, the cached basis matrices, the index list and the
\* labels of those indices; the call leaves the cache as it was, and every
\* epoch of a fit gets that same single item
C5_ItemOf(index) ==
    IF variant = "nodeclas"
    THEN [inputs |-> <<cache.X>> \o cache.A.items,
          labels |-> [k \in DOMAIN index |-> graph.label[index[k]]],
          out_index |-> index]
    ELSE [inputs |-> <<cache.X>> \o cache.A.items \o <<index>>,
          labels |-> [k \in DOMAIN index |-> graph.label[index[k]]]]

C5_OneItem ==
    /\ (op.name = "train_loader" /\ cache.A.kind = "list" /\ graph # NoGraph)
            => /\ err = "ok"
               /\ ret.kind = "sequence"
               /\ Len(Iterate(ret.seq)) = 1
               /\ Iterate(ret.seq)[1] = C5_ItemOf(op.a)
    /\ (lifecycle \in {"Fitting", "Fitted"} /\ epoch > 0)
            => /\ trainBatches = epoch
               /\ lastBatch = C5_ItemOf(fitCfg.train_index)

\* C5: the full-batch loader yields one item, the cached tensors with the
\* index list and its labels, in every call and every epoch, and reads the
\* cache without changing it
C5_FullBatchLoader ==
    /\ []C5_OneItem
    /\ [][op'.name \in {"train_loader", "fit_epoch"} => cache' = cache]_vars

C5_Witness ==
    /\ variant = "nodeclas" /\ op.name = "train_loader" /\ err = "ok"
    /\ Len(ret.seq.inputs) = 1 + Len(cache.A.items) /\ Len(cache.A.items) >= 2

\* C6: on a built trainer evaluate returns a bundle {loss, accuracy} and
\* leaves lifecycle state, cache, graph and model handle as they were
C6_EvaluateIsPure ==
    [][(op'.name = "evaluate" /\ built)
        => /\ err' = "ok"
           /\ ret'.kind = "bundle"
           /\ ret'.loss >= 0
           /\ ret'.accuracy.correct >= 0
           /\ ret'.accuracy.correct <= ret'.accuracy.total
           /\ lifecycle' = lifecycle /\ cache' = cache /\ graph' = graph
           /\ model' = model /\ built' = built]_vars

C6_Witness ==
    /\ op.name = "evaluate" /\ err = "ok" /\ lifecycle = "Fitted"
    /\ ret.kind = "bundle" /\ epoch >= 1

\* C7: the cache of the nodeclas trainer is empty until the data step of
\* build fills X and A with the converted attribute matrix and basis
\* matrices; only that data step writes it; fit epochs, loader calls,
\* evaluate and predict leave it unchanged, and every batch is made of the
\* cached tensors
C7_CacheContents ==
    /\ variant = "nodeclas" =>
        IF order = 0 THEN cache = EmptyCache
        ELSE /\ cache.X = [tensor |-> graph.attr_matrix, device |-> Device]
             /\ cache.A.kind = "list"
             /\ Len(cache.A.items) = order + 1
             /\ \A k \in 1..(order + 1) :
                    cache.A.items[k] =
                        [tensor |-> ChebyT(ScaledLaplacian(graph.adj_matrix), k - 1),
                         device |-> Device]
    /\ (op.name = "train_loader" /\ err = "ok")
            => /\ ret.seq.inputs[1] = cache.X
               /\ \A k \in DOMAIN cache.A.items : ret.seq.inputs[k + 1] = cache.A.items[k]
    /\ lastBatch # NoResult
            => /\ lastBatch.inputs[1] = cache.X
               /\ \A k \in DOMAIN cache.A.items : lastBatch.inputs[k + 1] = cache.A.items[k]

C8_EpochAccounting ==
    lifecycle \in {"Fitting", "Fitted"} =>
        /\ epoch <= fitCfg.epochs
        /\ trainBatches = epoch
        /\ valBatches = (IF fitCfg.val_index # <<>> THEN epoch ELSE 0)
        /\ \A c \in DOMAIN reports : reports[c] = epoch

\* C8: fit ends in Fitted after at most `epochs` epochs, one training batch,
\* one optional validation batch and one report per callback each, and no
\* epoch starts once a callback has asked to stop
C8_FitTerminates ==
    /\ []C8_EpochAccounting
    /\ [][(lifecycle = "Fitting" /\ stop) => epoch' = epoch]_vars
    /\ [][(op'.name = "fit" /\ built) => (lifecycle' = "Fitting" /\ epoch' = 0)]_vars
    /\ (lifecycle = "Fitting") ~> (lifecycle = "Fitted")

C8_Witness ==
    lifecycle = "Fitted" /\ stop /\ epoch = 1 /\ fitCfg.epochs = 2 /\ valBatches = 1

\* C9: the number of adjacency tensors the loader puts in a batch is the
\* number of adjacency inputs the model was built for, and both are order+1
C9_AdjCount(seq) ==
    IF variant = "nodeclas" THEN Len(seq.inputs) - 1 ELSE Len(seq.inputs) - 2

Tensor(num, den) == [num |-> num, den |-> den]

\* alpha as a fraction n/d: 0, the default 0.05, and 1/2
Alphas == {[n |-> 0, d |-> 1], [n |-> 1, d |-> 20], [n |-> 1, d |-> 2]}

\* node feature inputs x (one feature per node)
XInputs == {[i \in Nodes |-> 1], [i \in Nodes |-> i]}

\* torch.spmm(adj, x)
spmm(adj, t) ==
    Tensor([i \in DOMAIN adj |->
                SumTo([k \in DOMAIN adj |-> adj[i][k] * t.num[k]], Len(adj))],
           t.den)

\* c * t for the fraction c = n/d
scale(c, t) == Tensor([i \in DOMAIN t.num |-> c.n * t.num[i]], c.d * t.den)

\* a + b
add(a, b) ==
    IF a.den % b.den = 0
    THEN Tensor([i \in DOMAIN a.num |-> a.num[i] + b.num[i] * (a.den \div b.den)], a.den)
    ELSE IF b.den % a.den = 0
    THEN Tensor([i \in DOMAIN a.num |-> a.num[i] * (b.den \div a.den) + b.num[i]], b.den)
    ELSE Tensor([i \in DOMAIN a.num |-> a.num[i] * b.den + b.num[i] * a.den],
                a.den * b.den)

\* t / k
divide(t, k) == Tensor(t.num, t.den * k)

\* x_out += x: the sum written into the tensor x_out names
accumulate_in_place(h, xo, xv) ==
    [heap |-> [h EXCEPT ![xo] = add(h[xo], xv)], ref |-> xo]

\* x_out = x_out + x: the sum is a new tensor, x_out is rebound to it
accumulate(h, xo, xv) ==
    [heap |-> Append(h, add(h[xo], xv)), ref |-> Len(h) + 1]

InitSSG ==
    /\ ssg_pc = "new"
    /\ ssg_K = 0 /\ ssg_alpha = [n |-> 0, d |-> 1]
    /\ heap = <<>> /\ x_ref = 0 /\ x_in = 0 /\ x_out = 0 /\ arg_x = 0
    /\ ssg_i = 0 /\ ssg_steps = 0 /\ ssg_divs = <<>>
    /\ arg_val = Tensor([i \in Nodes |-> 0], 1)
    /\ ssg_adj = Identity(NumNodes)
    /\ TrainerIdle /\ ChebyIdle

\* SSGConv(K, alpha): assert K > 0
Construct(K, alpha) ==
    /\ ssg_pc = "new"
    /\ IF K > 0
       THEN /\ ssg_K' = K /\ ssg_alpha' = alpha /\ ssg_pc' = "ready"
       ELSE /\ ssg_pc' = "AssertionError" /\ UNCHANGED <<ssg_K, ssg_alpha>>
    /\ UNCHANGED <<heap, x_ref, x_in, x_out, arg_x, ssg_i, ssg_steps, ssg_divs,
                   arg_val, ssg_adj, trainerVars, chebyVars>>

\* forward(x, adj): x_in = x; x_out = x
ForwardEnter(xv, adj) ==
    /\ ssg_pc \in {"ready", "done"}
    /\ heap' = <<Tensor(xv, 1)>>
    /\ arg_x' = 1 /\ arg_val' = Tensor(xv, 1)
    /\ x_ref' = 1 /\ x_in' = 1 /\ x_out' = 1
    /\ ssg_adj' = adj
    /\ ssg_i' = 0 /\ ssg_steps' = 0 /\ ssg_divs' = <<>>
    /\ ssg_pc' = "loop"
    /\ UNCHANGED <<ssg_K, ssg_alpha, trainerVars, chebyVars>>

\* one pass of the loop: x = (1 - alpha) * spmm(adj, x); x_out = x_out + x
ForwardStep ==
    /\ ssg_pc = "loop" /\ ssg_i < ssg_K
    /\ LET xv == scale([n |-> ssg_alpha.d - ssg_alpha.n, d |-> ssg_alpha.d],
                       spmm(ssg_adj, heap[x_ref]))
           h1 == Append(heap, xv)
           acc == accumulate(h1, x_out, xv)
       IN  /\ x_ref' = Len(h1)
           /\ heap' = acc.heap
           /\ x_out' = acc.ref
    /\ ssg_i' = ssg_i + 1
    /\ ssg_steps' = ssg_steps + 1
    /\ UNCHANGED <<ssg_K, ssg_alpha, x_in, arg_x, ssg_divs, arg_val, ssg_adj, ssg_pc,
                   trainerVars, chebyVars>>

\* the loop is over: x_out = x_out / self.K
ForwardDivide ==
    /\ ssg_pc = "loop" /\ ~(ssg_i < ssg_K)
    /\ heap' = Append(heap, divide(heap[x_out], ssg_K))
    /\ x_out' = Len(heap) + 1
    /\ ssg_divs' = Append(ssg_divs, ssg_K)
    /\ ssg_pc' = "iadd"
    /\ UNCHANGED <<ssg_K, ssg_alpha, x_ref, x_in, arg_x, ssg_i, ssg_steps, arg_val,
                   ssg_adj, trainerVars, chebyVars>>

\* x_out += self.alpha * x_in, in place; return x_out
ForwardReturn ==
    /\ ssg_pc = "iadd"
    /\ heap' = [heap EXCEPT ![x_out] = add(heap[x_out], scale(ssg_alpha, heap[x_in]))]
    /\ ssg_pc' = "done"
    /\ UNCHANGED <<ssg_K, ssg_alpha, x_ref, x_in, x_out, arg_x, ssg_i, ssg_steps,
                   ssg_divs, arg_val, ssg_adj, trainerVars, chebyVars>>

NextSSG ==
    \/ \E K \in 0..MaxK, alpha \in Alphas : Construct(K, alpha)
    \/ \E xv \in XInputs, adj \in AdjMatrices : ForwardEnter(xv, adj)
    \/ ForwardStep
    \/ ForwardDivide
    \/ ForwardReturn

SpecSSG == InitSSG /\ [][NextSSG]_vars

\* C10: a constructed SSGConv has K > 0; forward makes exactly K propagation
\* steps, divides by a non-zero K only, never changes the tensor it was
\* handed, and leaves K and alpha as they were
C10_InputIntact ==
    /\ ssg_pc \in {"ready", "loop", "iadd", "done"} => ssg_K > 0
    /\ ssg_pc \in {"loop", "iadd", "done"} => heap[arg_x] = arg_val
    /\ ssg_pc \in {"iadd", "done"} =>
            /\ ssg_steps = ssg_K
            /\ x_out # arg_x /\ x_in = arg_x
            /\ ssg_divs = <<ssg_K>>
    /\ \A k \in DOMAIN ssg_divs : ssg_divs[k] # 0

\* C10: SSGConv.forward makes K > 0 propagation steps, divides by K only,
\* leaves its input tensor untouched and K and alpha unchanged
C10_ForwardFrame ==
    /\ []C10_InputIntact
    /\ [][ssg_pc # "new" => (ssg_K' = ssg_K /\ ssg_alpha' = ssg_alpha)]_vars

C10_Witness ==
    /\ ssg_pc = "done" /\ ssg_K = 2 /\ ssg_alpha = [n |-> 1, d |-> 20]
    /\ heap[x_out] # arg_val /\ heap[arg_x] = arg_val

====
